---- MODULE Spec2Model ----
(***************************************************************************)
(* Channel daemon (channeld) of lnp-node: the Runtime object of            *)
(* src/channeld/runtime.rs and its request handlers on the Msg and Ctl     *)
(* buses, one action per match arm of handle_rpc_msg / handle_rpc_ctl.     *)
(* `out` holds the send_to calls of the last handler in call order; a call *)
(* whose error is propagated and which fails is the last one of its        *)
(* handler, and the handler's result is then "Esb".                        *)
(* Spec is that channeld alone; SpecLnpd is the supervisor (lnpd) of       *)
(* src/lnpd/runtime.rs alone; SpecPair is two channeld of one channel      *)
(* exchanging the peer messages of its negotiation and funding.            *)
(***************************************************************************)
EXTENDS Integers, Sequences, FiniteSets, TLC

(***************************************************************************)
(* Bounds of the model.                                                    *)
(***************************************************************************)
\* cap on the payments counter total_payments
MaxPayments == 2
\* number of distinct key sets a remote peer may present in AcceptChannel
MaxPeerKeys == 2
\* number of distinct funding transactions an operator / peer may name
MaxTxids == 1
\* number of distinct temporary channel ids lnpd is asked to open
MaxTempIds == 2

(***************************************************************************)
(* Values.                                                                 *)
(***************************************************************************)
\* ChannelId / TempChannelId / Txid: 32 bytes, kept as <<first 30 bytes,
\* last two bytes as a 16-bit number>>
ZeroId == <<0, 0>>

\* ServiceId (DaemonId) values, a tag and a payload
Loopback == <<"Loopback", ZeroId>>
Lnpd == <<"Lnpd", ZeroId>>
Peer(n) == <<"Peer", <<n, 0>>>>
Channel(id) == <<"Channel", id>>
Foreign(n) == <<"Foreign", <<n, 0>>>>
\* Option<ServiceId>::None
None == <<"None", ZeroId>>

\* the temporary channel id channeld is started with (argv)
TempId == <<17, 4369>>
\* the operator's client on the Ctl bus
Client == Foreign(1)
\* the connection daemon of the remote peer
Peerd == Peer(1)
\* LocalNode::node_id(), used as the "dumb" key of a locally built AcceptChannel
NodeKey == 90

\* ChannelKeys: the six points of one side
ChannelKeys(fp, rb, pb, db, hb, fc) ==
    [funding_pubkey |-> fp, revocation_basepoint |-> rb,
     payment_basepoint |-> pb, delayed_payment_basepoint |-> db,
     htlc_basepoint |-> hb, first_per_commitment_point |-> fc]
\* the key set number k of a peer / wallet: six distinct points
KeySet(k) == ChannelKeys(10 * k + 1, 10 * k + 2, 10 * k + 3,
                         10 * k + 4, 10 * k + 5, 10 * k + 6)
\* dumb!() for ChannelKeys
DumbKeys == ChannelKeys(0, 0, 0, 0, 0, 0)

\* default!() for ChannelParams, OutPoint and ChannelState (the first
\* variant of the enumeration, the state a channel starts in)
DefaultParams == [dust_limit_satoshis |-> 0, to_self_delay |-> 0,
                  minimum_depth |-> 0]
DefaultOutPoint == [txid |-> ZeroId, vout |-> 0]
DefaultState == "Proposed"

ChannelStates == {"Proposed", "Accepted", "FundingCreated", "Funded",
                  "Locked", "Operational", "Closing", "Closed"}

(***************************************************************************)
(* Inputs.                                                                 *)
(***************************************************************************)
\* message::OpenChannel: `valid` says whether ChannelParams::with accepts it
OpenChannelReqs ==
    [temporary_channel_id : {TempId}, funding_satoshis : {1000000},
     dust_limit_satoshis : {354}, to_self_delay : {144},
     keys : {KeySet(1)}, valid : BOOLEAN]
\* message::AcceptChannel from the peer: `valid` says whether
\* ChannelParams::updated accepts it
AcceptChannelMsgs ==
    [temporary_channel_id : {TempId}, dust_limit_satoshis : {546},
     to_self_delay : {144}, minimum_depth : {3},
     keys : {KeySet(k) : k \in 2..(1 + MaxPeerKeys)}, valid : BOOLEAN]
\* funding outpoints
OutPoints == {[txid |-> <<t, 43690>>, vout |-> 7 * t] : t \in 1..MaxTxids}
\* message::FundingCreated from the peer
FundingCreatedMsgs ==
    {[temporary_channel_id |-> TempId, funding_txid |-> o.txid,
      funding_output_index |-> o.vout % 65536] : o \in OutPoints}
\* request::Transfer
TransferReqs == [amount : {1000}, asset : {None}]
\* outcome of the sends of one handler whose error is propagated with `?`:
\* all succeed, the send on the Ctl bus fails, or the send on the Msg bus
\* fails (sends whose result is dropped with `let _ =` have no outcome that
\* the handler can observe)
SendOutcomes == {"sent", "ctl_fails", "msg_fails"}
\* request types that are not peer messages, as they may arrive on Msg
NonPeerRequests == {"GetInfo"}
\* request types the Ctl interface of channeld has no arm for
UnknownCtlRequests == {"Hello"}
\* peer messages channeld has no arm of its own for
OtherPeerMessages == {"UpdateAddHtlc"}

(***************************************************************************)
(* Pure functions.                                                         *)
(***************************************************************************)
RECURSIVE Xor(_, _)
\* bitwise exclusive or of two naturals
Xor(a, b) ==
    IF a = 0 THEN b
    ELSE IF b = 0 THEN a
    ELSE (((a % 2) + (b % 2)) % 2) + 2 * Xor(a \div 2, b \div 2)

\* ChannelId::with(outpoint): the txid with its last two bytes XORed with
\* the low 16 bits of the output index
ChannelIdWith(outpoint) ==
    <<outpoint.txid[1], Xor(outpoint.txid[2], outpoint.vout % 65536)>>

\* the last 8 bytes, read big-endian, of the SHA256 of the concatenation
\* of two serialized points: an injective, order-sensitive pairing stands
\* for the hash
Sha256Tail(first, second) == first * 1000 + second

\* funding_update as it would be were the local payment basepoint always
\* fed first
ObscuringFactorLocalFirst(opener, local, remote) ==
    Sha256Tail(local.payment_basepoint, remote.payment_basepoint)

\* funding_update: the hash is fed the originator's payment basepoint first;
\* the factor is the last 8 bytes of the hash, big-endian
ObscuringFactor(opener, local, remote) ==
    IF opener
    THEN Sha256Tail(local.payment_basepoint, remote.payment_basepoint)
    ELSE Sha256Tail(remote.payment_basepoint, local.payment_basepoint)

\* ChannelParams::with(open_channel)
ParamsWith(req) ==
    [dust_limit_satoshis |-> req.dust_limit_satoshis,
     to_self_delay |-> req.to_self_delay, minimum_depth |-> 0]
\* ChannelParams::updated(accept_channel, None)
ParamsUpdated(params, acc) ==
    [dust_limit_satoshis |-> acc.dust_limit_satoshis,
     to_self_delay |-> acc.to_self_delay,
     minimum_depth |-> acc.minimum_depth]

\* PubkeyScript::ln_funding(amount, pk1, pk2): P2WSH over the 2-of-2 with
\* the keys in lexicographic order
LnFunding(amount, pk1, pk2) ==
    [amount |-> amount,
     keys |-> IF pk1 <= pk2 THEN <<pk1, pk2>> ELSE <<pk2, pk1>>]

\* one call of senders.send_to(bus, identity, dest, request)
Send(bus, from, to, type, body) ==
    [bus |-> bus, from |-> from, to |-> to, type |-> type, body |-> body]
\* CtlServer::send_ctl with an optional destination: nothing when None
SendCtl(from, dest, type, body) ==
    IF dest = None THEN <<>> ELSE <<Send("Ctl", from, dest, type, body)>>
\* CtlServer::report_progress_to / report_success_to / report_failure_to
Report(from, dest, kind) == SendCtl(from, dest, kind, 0)

(***************************************************************************)
(* State: the fields of channeld's Runtime, and the observation of the     *)
(* last handled frame.                                                     *)
(***************************************************************************)
VARIABLES
    identity, peer_service, channel_id, temporary_channel_id, state,
    local_capacity, remote_capacity, funding_outpoint, remote_peer,
    commitment_number, total_payments, pending_payments, params,
    local_keys, remote_keys, is_originator, obscuring_factor, enquirer,
    \* the request handled last, its result and the send_to calls it made
    last, out,
    \* how much of the path Accepted, FundingCreated, Funded `state` has
    \* passed through, in this order (0..3)
    passed,
    \* funding_satoshis of the OpenChannel the parameters were last taken
    \* from (0 before any)
    negotiated

VARIABLES
    \* lnpd's Runtime: pending channel requests by the address of the
    \* channeld that will host them
    opening_channels,
    \* the request lnpd handled last, its result, the send_to calls and the
    \* launch calls it made
    lnpd_last, lnpd_out, launched,
    \* the bus identities of the channeld children started so far
    spawned,
    \* for each pending request, the bus it was received on: Msg for a
    \* peer's OpenChannel, Ctl for an operator's CreateChannel
    requested_on

lnpd_vars == <<opening_channels, lnpd_last, lnpd_out, launched, spawned,
               requested_on>>

VARIABLES
    \* two channeld of one channel, each the Runtime of its daemon: the one
    \* the operator asks to open the channel and the one of the remote node
    originator, responder,
    \* the peer messages of the channel in flight between the two
    wire

pair_vars == <<originator, responder, wire>>

VARIABLES
    \* the last conversion of a DaemonId done by the address codec: the
    \* operation, the address and the bytes it was given, and its result
    codec

fields == <<identity, peer_service, channel_id, temporary_channel_id, state,
            local_capacity, remote_capacity, funding_outpoint, remote_peer,
            commitment_number, total_payments, pending_payments, params,
            local_keys, remote_keys, is_originator, obscuring_factor,
            enquirer>>
channeld_vars == <<fields, last, out, passed, negotiated>>
vars == <<channeld_vars, lnpd_vars, pair_vars, codec>>

\* Runtime::channel_capacity
channel_capacity == local_capacity + remote_capacity

\* run(): the bus identity of a channeld started with the channel id `arg`
RunIdentity(arg) == Channel(arg)

\* lnpd's run(): the Runtime the supervisor starts with, no child started
LnpdInit ==
    /\ opening_channels = <<>>
    /\ lnpd_last = [ev |-> "start", bus |-> "none", source |-> None,
                    result |-> "Ok", err |-> <<>>, input |-> 0]
    /\ lnpd_out = <<>>
    /\ launched = <<>>
    /\ spawned = {}
    /\ requested_on = <<>>

\* run(): the Runtime the daemon starts with
ChanneldInit ==
    /\ identity = RunIdentity(TempId)
    /\ peer_service = Loopback
    /\ channel_id = ZeroId
    /\ temporary_channel_id = TempId
    /\ state = DefaultState
    /\ local_capacity = 0
    /\ remote_capacity = 0
    /\ funding_outpoint = DefaultOutPoint
    /\ remote_peer = None
    /\ commitment_number = 0
    /\ total_payments = 0
    /\ pending_payments = 0
    /\ params = DefaultParams
    /\ local_keys = DumbKeys
    /\ remote_keys = DumbKeys
    /\ is_originator = FALSE
    /\ obscuring_factor = 0
    /\ enquirer = None
    /\ last = [ev |-> "start", bus |-> "none", result |-> "Ok",
               err |-> <<>>, input |-> 0]
    /\ out = <<>>
    /\ passed = 0
    /\ negotiated = 0

\* run(): the Runtime of a channeld of the node with key `node_id`, the
\* fields that the negotiation of the keys and the funding read or assign;
\* `opened`, `agreed` and `funded` observe the run: OpenChannelWith was
\* handled, both key sets are stored, and whether funding_update has run
\* ("no", "early" when the keys were not yet agreed, "agreed")
PairRuntime(node_id) ==
    [node_id |-> node_id, peer_service |-> Loopback, channel_id |-> ZeroId,
     temporary_channel_id |-> TempId, state |-> DefaultState,
     funding_outpoint |-> DefaultOutPoint, commitment_number |-> 0,
     params |-> DefaultParams, local_keys |-> DumbKeys,
     remote_keys |-> DumbKeys, is_originator |-> FALSE,
     obscuring_factor |-> 0,
     opened |-> FALSE, agreed |-> FALSE, funded |-> "no"]

\* the node keys the remote node may have
PairNodeKeys == {5, 91}

\* no conversion done yet
CodecIdle ==
    [op |-> "none", addr |-> <<"None", <<>>>>, bytes |-> <<>>,
     result |-> [ok |-> TRUE, value |-> <<"None", <<>>>>,
                 err |-> <<"none", 0>>]]

\* one channeld next to a supervisor that handles no request
Init ==
    /\ ChanneldInit
    /\ LnpdInit
    /\ originator = PairRuntime(NodeKey)
    /\ responder = PairRuntime(NodeKey)
    /\ wire = {}
    /\ codec = CodecIdle

\* the path monitor: the next state of the path, once entered, advances it
Passed(n, new_state) ==
    IF n < 3 /\ new_state = <<"Accepted", "FundingCreated", "Funded">>[n + 1]
    THEN n + 1 ELSE n

\* the event loop takes the next frame
Frame(ev, bus, result, err, input, sends) ==
    /\ last' = [ev |-> ev, bus |-> bus, result |-> result,
                err |-> err, input |-> input]
    /\ out' = sends
    /\ passed' = Passed(passed, state')
    /\ negotiated' = IF ev \in {"OpenChannelWith", "AcceptChannelFrom"}
                        /\ input.channel_req.valid
                     THEN input.channel_req.funding_satoshis
                     ELSE negotiated
    /\ UNCHANGED <<lnpd_vars, pair_vars, codec>>

(***************************************************************************)
(* funding_update, shared by fund_channel and funding_created.             *)
(***************************************************************************)
\* the identity after funding_update: switched only when the
\* UpdateChannelId send to lnpd did not fail
FundingUpdateIdentity(outcome, old, new_channel_id) ==
    IF outcome = "ctl_fails" THEN old ELSE Channel(new_channel_id)

\* the fields funding_update assigns
funding_update(outcome) ==
    /\ obscuring_factor' =
           ObscuringFactor(is_originator, local_keys, remote_keys)
    /\ commitment_number' = 0
    /\ channel_id' = ChannelIdWith(funding_outpoint')
    /\ identity' = FundingUpdateIdentity(outcome, identity, channel_id')

\* the send_to calls of funding_update
FundingUpdateSends(outcome, new_channel_id, report_to) ==
    <<Send("Ctl", identity, Lnpd, "UpdateChannelId", new_channel_id)>>
    \o (IF outcome = "ctl_fails" THEN <<>>
        ELSE Report(Channel(new_channel_id), report_to, "Progress"))

\* Result of a handler whose last fallible call is send_peer
SendResult(outcome) == IF outcome = "sent" THEN "Ok" ELSE "Esb"

(***************************************************************************)
(* handle_rpc_ctl                                                          *)
(***************************************************************************)
\* the state after the OpenChannelWith arm, parameters valid
OpenChannelWithState(outcome, old) ==
    IF outcome = "msg_fails" THEN old ELSE "Proposed"

\* OpenChannelWith arm and open_channel
OpenChannelWith(channel_req, peerd, report_to, outcome) ==
    LET input == [channel_req |-> channel_req, peerd |-> peerd,
                  report_to |-> report_to]
        progress == Report(identity, report_to, "Progress")
    IN
    /\ peer_service' = peerd
    /\ enquirer' = report_to
    /\ remote_peer' = IF peerd[1] = "Peer" THEN peerd ELSE remote_peer
    /\ is_originator' = TRUE
    /\ UNCHANGED <<identity, channel_id, temporary_channel_id,
                   local_capacity, remote_capacity, funding_outpoint,
                   commitment_number, total_payments, pending_payments,
                   remote_keys, obscuring_factor>>
    /\ IF ~channel_req.valid
       THEN /\ UNCHANGED <<params, local_keys, state>>
            /\ Frame("OpenChannelWith", "Ctl", "ChannelNegotiationError",
                     <<>>, input,
                     progress \o Report(identity, report_to, "Failure"))
       ELSE /\ params' = ParamsWith(channel_req)
            /\ local_keys' = channel_req.keys
            /\ state' = OpenChannelWithState(outcome, state)
            /\ Frame("OpenChannelWith", "Ctl", SendResult(outcome), <<>>,
                     input,
                     progress \o <<Send("Msg", identity, peerd,
                                        "OpenChannel", channel_req)>>)

\* the AcceptChannel message accept_channel builds from the request, every
\* point of it the node key
AcceptChannelWith(channel_req, dumb_key) ==
    [temporary_channel_id |-> channel_req.temporary_channel_id,
     dust_limit_satoshis |-> channel_req.dust_limit_satoshis,
     to_self_delay |-> channel_req.to_self_delay,
     minimum_depth |-> 3,
     keys |-> ChannelKeys(dumb_key, dumb_key, dumb_key, dumb_key, dumb_key,
                          dumb_key)]
\* the AcceptChannel message of the channeld of this node
LocalAcceptChannel(channel_req) == AcceptChannelWith(channel_req, NodeKey)

\* AcceptChannelFrom arm and accept_channel; `accepted` says whether
\* ChannelParams::updated accepts the locally built AcceptChannel
AcceptChannelFrom(channel_req, peerd, report_to, accepted, outcome) ==
    LET input == [channel_req |-> channel_req, peerd |-> peerd,
                  report_to |-> report_to]
        progress == Report(identity, enquirer, "Progress")
        accept_channel == LocalAcceptChannel(channel_req)
    IN
    /\ peer_service' = peerd
    /\ remote_peer' = IF peerd[1] = "Peer" THEN peerd ELSE remote_peer
    /\ is_originator' = FALSE
    /\ UNCHANGED <<identity, channel_id, temporary_channel_id,
                   local_capacity, remote_capacity, funding_outpoint,
                   commitment_number, total_payments, pending_payments,
                   obscuring_factor, enquirer>>
    /\ IF ~channel_req.valid
       THEN /\ UNCHANGED <<params, local_keys, remote_keys>>
            /\ state' = "Proposed"
            /\ Frame("AcceptChannelFrom", "Ctl", "ChannelNegotiationError",
                     <<>>, input,
                     progress \o Report(identity, report_to, "Failure"))
       ELSE IF ~accepted
       THEN /\ params' = ParamsWith(channel_req)
            /\ remote_keys' = channel_req.keys
            /\ UNCHANGED local_keys
            /\ state' = "Proposed"
            /\ Frame("AcceptChannelFrom", "Ctl", "ChannelNegotiationError",
                     <<>>, input,
                     progress \o Report(identity, report_to, "Failure"))
       ELSE /\ params' = ParamsUpdated(ParamsWith(channel_req),
                                       accept_channel)
            /\ remote_keys' = channel_req.keys
            /\ local_keys' = accept_channel.keys
            /\ state' = IF outcome = "msg_fails" THEN "Proposed"
                        ELSE "Accepted"
            /\ Frame("AcceptChannelFrom", "Ctl", SendResult(outcome), <<>>,
                     input,
                     progress \o Report(identity, enquirer, "Success")
                     \o <<Send("Msg", identity, peerd, "AcceptChannel",
                               accept_channel)>>)

\* the FundingCreated message as it would be were an output index above
\* 2^16 - 1 sent as 2^16 - 1
LocalFundingCreatedSaturating(temp_id, outpoint) ==
    [temporary_channel_id |-> temp_id, funding_txid |-> outpoint.txid,
     funding_output_index |-> IF outpoint.vout > 65535 THEN 65535
                              ELSE outpoint.vout]

\* the FundingCreated message fund_channel builds
LocalFundingCreated(temp_id, outpoint) ==
    [temporary_channel_id |-> temp_id, funding_txid |-> outpoint.txid,
     funding_output_index |-> outpoint.vout % 65536]

\* FundChannel arm, fund_channel and funding_update
FundChannel(outpoint, source, outcome) ==
    /\ enquirer' = source
    /\ funding_outpoint' = outpoint
    /\ funding_update(outcome)
    /\ UNCHANGED <<peer_service, temporary_channel_id, state,
                   local_capacity, remote_capacity, remote_peer,
                   total_payments, pending_payments, params, local_keys,
                   remote_keys, is_originator>>
    /\ Frame("FundChannel", "Ctl", SendResult(outcome), <<>>,
             [funding_outpoint |-> outpoint, source |-> source],
             Report(identity, source, "Progress")
             \o FundingUpdateSends(outcome, channel_id', source)
             \o (IF outcome = "ctl_fails" THEN <<>>
                 ELSE Report(identity', source, "Progress")
                      \o <<Send("Msg", identity', peer_service,
                                "FundingCreated",
                                LocalFundingCreated(temporary_channel_id,
                                                    outpoint))>>))

\* transfer as it would be were the counter not advanced
TransferPaymentsStuck(n) == n

\* total_payments after transfer (a u64; the counter stays below MaxPayments)
TransferPayments(n) == n + 1

\* Transfer as it would be were every transfer counted as a commitment update
TransferCommitting(transfer_req, source, outcome) ==
    /\ total_payments < MaxPayments
    /\ enquirer' = source
    /\ total_payments' = TransferPayments(total_payments)
    /\ commitment_number' = commitment_number + 1
    /\ UNCHANGED <<identity, peer_service, channel_id, temporary_channel_id,
                   state, local_capacity, remote_capacity, funding_outpoint,
                   remote_peer, pending_payments, params,
                   local_keys, remote_keys, is_originator,
                   obscuring_factor>>
    /\ Frame("Transfer", "Ctl", SendResult(outcome), <<>>,
             [transfer_req |-> transfer_req, source |-> source],
             Report(identity, source, "Progress")
             \o <<Send("Msg", identity, peer_service, "UpdateAddHtlc",
                       [channel_id |-> channel_id,
                        htlc_id |-> total_payments,
                        amount_msat |-> transfer_req.amount,
                        asset_id |-> transfer_req.asset])>>)

\* Transfer arm and transfer
Transfer(transfer_req, source, outcome) ==
    /\ total_payments < MaxPayments
    /\ enquirer' = source
    /\ total_payments' = TransferPayments(total_payments)
    /\ UNCHANGED <<identity, peer_service, channel_id, temporary_channel_id,
                   state, local_capacity, remote_capacity, funding_outpoint,
                   remote_peer, commitment_number, pending_payments, params,
                   local_keys, remote_keys, is_originator,
                   obscuring_factor>>
    /\ Frame("Transfer", "Ctl", SendResult(outcome), <<>>,
             [transfer_req |-> transfer_req, source |-> source],
             Report(identity, source, "Progress")
             \o <<Send("Msg", identity, peer_service, "UpdateAddHtlc",
                       [channel_id |-> channel_id,
                        htlc_id |-> total_payments,
                        amount_msat |-> transfer_req.amount,
                        asset_id |-> transfer_req.asset])>>)

\* the snapshot the GetInfo arm builds
ChannelInfo ==
    [channel_id |-> IF channel_id = ZeroId THEN None
                    ELSE <<"Some", channel_id>>,
     temporary_channel_id |-> temporary_channel_id,
     state |-> state,
     local_capacity |-> local_capacity,
     remote_capacity |-> remote_capacity,
     funding_outpoint |-> funding_outpoint,
     remote_peer |-> remote_peer,
     commitment_updates |-> commitment_number,
     total_payments |-> total_payments,
     pending_payments |-> pending_payments,
     is_originator |-> is_originator,
     params |-> params,
     local_keys |-> local_keys,
     remote_keys |-> remote_keys]

\* the GetInfo arm as it would be were the source kept as the enquirer
GetInfoRemembering(source, outcome) ==
    /\ enquirer' = source
    /\ UNCHANGED <<identity, peer_service, channel_id, temporary_channel_id,
                   state, local_capacity, remote_capacity, funding_outpoint,
                   remote_peer, commitment_number, total_payments,
                   pending_payments, params, local_keys, remote_keys,
                   is_originator, obscuring_factor>>
    /\ Frame("GetInfo", "Ctl", SendResult(outcome), <<>>,
             [source |-> source],
             <<Send("Ctl", identity, source, "ChannelInfo", ChannelInfo)>>)

\* GetInfo arm
GetInfo(source, outcome) ==
    /\ UNCHANGED fields
    /\ Frame("GetInfo", "Ctl", SendResult(outcome), <<>>,
             [source |-> source],
             <<Send("Ctl", identity, source, "ChannelInfo", ChannelInfo)>>)

\* fallback arm of handle_rpc_ctl
CtlNotSupported(type) ==
    /\ UNCHANGED fields
    /\ Frame(type, "Ctl", "NotSupported", <<"Ctl", type>>, 0, <<>>)

(***************************************************************************)
(* handle_rpc_msg                                                          *)
(***************************************************************************)
\* the state the AcceptChannel arm assigns before it validates
AcceptChannelState(old) == "Accepted"

\* channel_accepted as it would be were the peer's keys not stored
ChannelAcceptedKeysDropped(old, accept_channel) == old

\* remote_keys after channel_accepted
ChannelAcceptedKeys(old, accept_channel) ==
    IF accept_channel.valid THEN accept_channel.keys ELSE old

\* the ChannelFunding request of the AcceptChannel arm, result dropped
ChannelFundingSends(accept_channel) ==
    SendCtl(identity, enquirer, "ChannelFunding",
            LnFunding(channel_capacity, local_keys.funding_pubkey,
                      accept_channel.funding_pubkey))

\* PeerMessage(AcceptChannel) arm and channel_accepted
AcceptChannel(accept_channel) ==
    LET progress == Report(identity, enquirer, "Progress")
    IN
    /\ state' = AcceptChannelState(state)
    /\ remote_keys' = ChannelAcceptedKeys(remote_keys, accept_channel)
    /\ UNCHANGED <<identity, peer_service, channel_id, temporary_channel_id,
                   local_capacity, remote_capacity, funding_outpoint,
                   remote_peer, commitment_number, total_payments,
                   pending_payments, local_keys, is_originator,
                   obscuring_factor, enquirer>>
    /\ IF ~accept_channel.valid
       THEN /\ UNCHANGED params
            /\ Frame("AcceptChannel", "Msg", "ChannelNegotiationError",
                     <<>>, accept_channel,
                     progress \o Report(identity, enquirer, "Failure"))
       ELSE /\ params' = ParamsUpdated(params, accept_channel)
            /\ Frame("AcceptChannel", "Msg", "Ok", <<>>, accept_channel,
                     progress \o Report(identity, enquirer, "Success")
                     \o ChannelFundingSends(
                            [funding_pubkey |->
                                 accept_channel.keys.funding_pubkey]))

\* PeerMessage(FundingCreated) arm, funding_created and funding_update
FundingCreated(funding_created, outcome) ==
    /\ funding_outpoint' = [txid |-> funding_created.funding_txid,
                            vout |-> funding_created.funding_output_index]
    /\ funding_update(outcome)
    /\ UNCHANGED <<peer_service, temporary_channel_id, state,
                   local_capacity, remote_capacity, remote_peer,
                   total_payments, pending_payments, params, local_keys,
                   remote_keys, is_originator, enquirer>>
    /\ Frame("FundingCreated", "Msg", SendResult(outcome), <<>>,
             funding_created,
             Report(identity, enquirer, "Progress")
             \o FundingUpdateSends(outcome, channel_id', enquirer)
             \o (IF outcome = "ctl_fails" THEN <<>>
                 ELSE Report(identity', enquirer, "Progress")
                      \o <<Send("Msg", identity', peer_service,
                                "FundingSigned",
                                [channel_id |-> channel_id'])>>))

\* PeerMessage(FundingSigned) arm: nothing is done
FundingSigned ==
    /\ UNCHANGED fields
    /\ Frame("FundingSigned", "Msg", "Ok", <<>>, 0, <<>>)

\* FundingLocked as it would be were the state changed with no precondition
FundingLockedUnguarded ==
    /\ state' = "Operational"
    /\ UNCHANGED <<identity, peer_service, channel_id, temporary_channel_id,
                   local_capacity, remote_capacity, funding_outpoint,
                   remote_peer, commitment_number, total_payments,
                   pending_payments, params, local_keys, remote_keys,
                   is_originator, obscuring_factor, enquirer>>
    /\ Frame("FundingLocked", "Msg", "Ok", <<>>, 0, <<>>)

\* PeerMessage(FundingLocked) arm: nothing is done
FundingLocked ==
    /\ UNCHANGED fields
    /\ Frame("FundingLocked", "Msg", "Ok", <<>>, 0, <<>>)

\* PeerMessage(_) arm: the rest of the peer messages is ignored
OtherPeerMessage(type) ==
    /\ UNCHANGED fields
    /\ Frame(type, "Msg", "Ok", <<>>, 0, <<>>)

\* fallback arm of handle_rpc_msg
MsgNotSupported(type) ==
    /\ UNCHANGED fields
    /\ Frame(type, "Msg", "NotSupported", <<"Msg", type>>, 0, <<>>)

(***************************************************************************)
(* handle, handle_err                                                      *)
(***************************************************************************)
\* handle on any bus other than Msg and Ctl
BridgeNotSupported(type) ==
    /\ UNCHANGED fields
    /\ Frame(type, "Bridge", "NotSupported", <<"Bridge", type>>, 0, <<>>)

\* handle_err as it would be were the transport error handed back
handle_errPropagating ==
    /\ UNCHANGED fields
    /\ Frame("handle_err", "none", "Esb", <<>>, 0, <<>>)

\* handle_err: the transport error is dropped
handle_err ==
    /\ UNCHANGED fields
    /\ Frame("handle_err", "none", "Ok", <<>>, 0, <<>>)

(***************************************************************************)
(* The event loop of channeld.                                             *)
(***************************************************************************)
Next ==
    \/ \E r \in OpenChannelReqs, rt \in {None, Client},
          o \in {"sent", "msg_fails"} : OpenChannelWith(r, Peerd, rt, o)
    \/ \E r \in OpenChannelReqs, rt \in {None, Client}, a \in BOOLEAN,
          o \in {"sent", "msg_fails"} : AcceptChannelFrom(r, Peerd, rt, a, o)
    \/ \E op \in OutPoints, o \in SendOutcomes : FundChannel(op, Client, o)
    \/ \E t \in TransferReqs, o \in {"sent", "msg_fails"} :
          Transfer(t, Client, o)
    \/ \E o \in {"sent", "ctl_fails"} : GetInfo(Client, o)
    \/ \E t \in UnknownCtlRequests : CtlNotSupported(t)
    \/ \E a \in AcceptChannelMsgs : AcceptChannel(a)
    \/ \E f \in FundingCreatedMsgs, o \in SendOutcomes : FundingCreated(f, o)
    \/ FundingSigned
    \/ FundingLocked
    \/ \E t \in OtherPeerMessages : OtherPeerMessage(t)
    \/ \E t \in NonPeerRequests : MsgNotSupported(t)
    \/ \E t \in NonPeerRequests \cup OtherPeerMessages : BridgeNotSupported(t)
    \/ handle_err

Spec == Init /\ [][Next]_vars

(***************************************************************************)
(* Properties of channeld.                                                 *)
(***************************************************************************)
\* the send_to calls of type `type` the last handler made to `dest`
Calls(sends, bus, dest, type) ==
    {i \in 1..Len(sends) : /\ sends[i].bus = bus
                           /\ sends[i].to = dest
                           /\ sends[i].type = type}
\* the send_to calls the last handler made on `bus`
CallsOn(sends, bus) == {i \in 1..Len(sends) : sends[i].bus = bus}
\* the send_to calls of type `type` the last handler made
CallsOf(sends, type) == {i \in 1..Len(sends) : sends[i].type = type}

\* C1: the state Operational is never reached unless the channel has
\* earlier passed, in this order, through Accepted, FundingCreated and Funded.
C1_OperationalOnlyAfterFunded == state = "Operational" => passed = 3

\* C1: the events of the opening path up to FundingLocked have been handled
\* by an originator with a funded channel
C1_Witness ==
    /\ last.ev = "FundingLocked"
    /\ is_originator
    /\ passed >= 1
    /\ channel_id # ZeroId

\* C2: of two consecutive peer AcceptChannel messages the first of which was
\* accepted, the second returns an error, changes neither state, params nor
\* remote_keys, and emits no ChannelFunding.
C2_SecondAcceptRejected ==
    [][(/\ last.ev = "AcceptChannel"
        /\ last.result = "Ok"
        /\ last'.ev = "AcceptChannel")
       => (/\ last'.result # "Ok"
           /\ state' = state
           /\ params' = params
           /\ remote_keys' = remote_keys
           /\ CallsOf(out', "ChannelFunding") = {})]_vars

\* C3: channel_id is the all-zero value if and only if state is Proposed or
\* Accepted.
C3_ChannelIdZeroIffEarly ==
    (channel_id = ZeroId) <=> (state \in {"Proposed", "Accepted"})

\* C4: the bus identity is Channel(temporary_channel_id) before any
\* funding_update has run and Channel(id derived from the funding outpoint)
\* after.
C4_OneIdentity ==
    identity = IF funding_outpoint = DefaultOutPoint
               THEN Channel(temporary_channel_id)
               ELSE Channel(ChannelIdWith(funding_outpoint))

\* C5: once a funding_update has run, obscuring_factor keeps its value in
\* every later state.
C5_ObscuringFactorFixed ==
    [][funding_outpoint # DefaultOutPoint
       => obscuring_factor' = obscuring_factor]_vars

\* C6: once the channel is funded, local_capacity + remote_capacity equals
\* the funding amount of the OpenChannel the channel was negotiated with.
C6_CapacityConservation ==
    (channel_id # ZeroId /\ negotiated # 0)
    => channel_capacity = negotiated

\* C7: when OpenChannelWith, AcceptChannelFrom or a peer AcceptChannel fails
\* with a ChannelNegotiationError, a failure report goes to the enquirer and
\* the state is what it was before the event.
C7_NegotiationFailureKeepsState ==
    [][(/\ last' # last
        /\ last'.ev \in {"OpenChannelWith", "AcceptChannelFrom",
                         "AcceptChannel"}
        /\ last'.result = "ChannelNegotiationError")
       => (/\ state' = state
           /\ \/ last'.bus = "Ctl"
                 /\ \/ last'.input.report_to = None
                    \/ Calls(out', "Ctl", last'.input.report_to,
                             "Failure") # {}
              \/ last'.bus = "Msg"
                 /\ \/ enquirer = None
                    \/ Calls(out', "Ctl", enquirer, "Failure") # {})]_vars

\* C8: for OpenChannelWith, AcceptChannelFrom, FundChannel, peer
\* FundingCreated and Transfer, either the peer message is sent, or the send
\* fails and the channel fields keep the values they had before the event.
C8_TransitionAtomicWithSend ==
    [][(/\ last' # last
        /\ last'.ev \in {"OpenChannelWith", "AcceptChannelFrom",
                         "FundChannel", "FundingCreated", "Transfer"})
       => (/\ last'.result = "Ok" => CallsOn(out', "Msg") # {}
           /\ last'.result = "Esb"
              => UNCHANGED <<state, is_originator, params, local_keys,
                             remote_keys, funding_outpoint, channel_id,
                             identity, total_payments>>)]_vars

\* the From state of an event's row in the transition table
FromState(ev) ==
    CASE ev = "AcceptChannel" -> "Proposed"
      [] ev = "FundChannel" -> "Accepted"
      [] ev = "FundingCreated" -> "Accepted"
      [] ev = "FundingSigned" -> "FundingCreated"
      [] ev = "FundingLocked" -> "Funded"
      [] ev = "Transfer" -> "Operational"

\* C9: an event delivered while the channel is not in the From state of its
\* row causes no state transition and no outgoing peer message.
C9_PreconditionsEnforceOrder ==
    [][(/\ last' # last
        /\ last'.ev \in {"AcceptChannel", "FundChannel", "FundingCreated",
                         "FundingSigned", "FundingLocked", "Transfer"}
        /\ state # FromState(last'.ev))
       => (state' = state /\ CallsOn(out', "Msg") = {})]_vars

\* C10: OpenChannelWith with valid parameters issues OpenChannel on Msg to
\* the given peerd and sets is_originator; handled without error it leaves
\* the state Proposed. A valid peer AcceptChannel stores the peer's keys as
\* remote_keys, sets the state Accepted and, following an OpenChannelWith,
\* issues exactly one ChannelFunding, to the enquirer report_to names.
C10_OutboundOpen ==
    /\ [](/\ (last.ev = "OpenChannelWith" /\ last.input.channel_req.valid)
             => /\ is_originator
                /\ local_keys = last.input.channel_req.keys
                /\ \E i \in Calls(out, "Msg", last.input.peerd,
                                  "OpenChannel") :
                       out[i].body = last.input.channel_req
          /\ (last.ev = "OpenChannelWith" /\ last.result = "Ok")
             => state = "Proposed"
          /\ (last.ev = "AcceptChannel" /\ last.result = "Ok")
             => /\ remote_keys = last.input.keys
                /\ state = "Accepted"
                /\ Cardinality(CallsOf(out, "ChannelFunding")) <= 1)
    /\ [][(/\ last.ev = "OpenChannelWith"
           /\ last.result = "Ok"
           /\ last.input.report_to # None
           /\ last'.ev = "AcceptChannel"
           /\ last'.result = "Ok")
          => /\ Cardinality(Calls(out', "Ctl", last.input.report_to,
                                  "ChannelFunding")) = 1
             /\ \A i \in CallsOf(out', "ChannelFunding") :
                    out'[i].body =
                        LnFunding(channel_capacity,
                                  local_keys.funding_pubkey,
                                  last'.input.keys.funding_pubkey)]_vars

\* C10: an originator whose OpenChannelWith named an enquirer has handled a
\* valid AcceptChannel and issued the ChannelFunding
C10_Witness ==
    /\ last.ev = "AcceptChannel"
    /\ last.result = "Ok"
    /\ is_originator
    /\ state = "Accepted"
    /\ remote_keys = last.input.keys
    /\ Calls(out, "Ctl", Client, "ChannelFunding") # {}

\* C11: FundChannel(outpoint) handled in state Accepted stores the outpoint,
\* sets channel_id to the id derived from it, publishes UpdateChannelId to
\* the supervisor, sends FundingCreated to the peer and leaves the channel in
\* state FundingCreated.
C11_FundChannelEntersFundingCreated ==
    [][(/\ last' # last
        /\ last'.ev = "FundChannel"
        /\ last'.result = "Ok"
        /\ state = "Accepted")
       => (/\ funding_outpoint' = last'.input.funding_outpoint
           /\ channel_id' = ChannelIdWith(last'.input.funding_outpoint)
           /\ Calls(out', "Ctl", Lnpd, "UpdateChannelId") # {}
           /\ Calls(out', "Msg", peer_service, "FundingCreated") # {}
           /\ state' = "FundingCreated")]_vars

\* C12: a peer FundingCreated handled by a responder in state Accepted stores
\* the outpoint of the message, runs funding_update, sends FundingSigned with
\* the new channel_id to the peer and leaves the channel in state
\* FundingCreated.
C12_FundingCreatedEntersFundingCreated ==
    [][(/\ last' # last
        /\ last'.ev = "FundingCreated"
        /\ last'.result = "Ok"
        /\ ~is_originator
        /\ state = "Accepted")
       => (/\ funding_outpoint' =
                  [txid |-> last'.input.funding_txid,
                   vout |-> last'.input.funding_output_index]
           /\ channel_id' = ChannelIdWith(funding_outpoint')
           /\ \E i \in Calls(out', "Msg", peer_service, "FundingSigned") :
                  out'[i].body.channel_id = channel_id'
           /\ state' = "FundingCreated")]_vars

\* C13: a peer FundingSigned handled in state FundingCreated (the state of a
\* channel whose FundChannel or peer FundingCreated was just handled without
\* error) moves the channel to Funded.
C13_FundingSignedEntersFunded ==
    [][(/\ last' # last
        /\ last'.ev = "FundingSigned"
        /\ \/ state = "FundingCreated"
           \/ /\ last.ev \in {"FundChannel", "FundingCreated"}
              /\ last.result = "Ok")
       => state' = "Funded"]_vars

\* C14: a peer FundingLocked handled in state Funded (the state of a funded
\* channel whose FundingSigned was just handled) moves the channel to Locked,
\* or to Operational when the local side is locked as well.
C14_FundingLockedEntersLocked ==
    [][(/\ last' # last
        /\ last'.ev = "FundingLocked"
        /\ \/ state = "Funded"
           \/ /\ last.ev = "FundingSigned"
              /\ channel_id # ZeroId
              /\ passed >= 1)
       => state' \in {"Locked", "Operational"}]_vars

C18_CommitmentNumberMonotonic ==
    [][commitment_number' >= commitment_number]_vars

\* C18: funding_update has assigned commitment_number after a Transfer
C18_Witness ==
    /\ last.ev \in {"FundChannel", "FundingCreated"}
    /\ funding_outpoint # DefaultOutPoint
    /\ total_payments > 0
    /\ commitment_number = 0

\* C23: a GetInfo on Msg returns NotSupported(Msg, GetInfo), makes no
\* send_to call and changes no field; a GetInfo on Ctl makes exactly one
\* send_to call, a ChannelInfo on Ctl to its source whose state and
\* counters are the current ones and whose channel_id is None exactly when
\* channel_id is zero, and changes no field.
C23_CrossBusIsolation ==
    /\ [][(last' # last /\ last'.ev = "GetInfo" /\ last'.bus = "Msg")
          => /\ last'.result = "NotSupported"
             /\ last'.err = <<"Msg", "GetInfo">>
             /\ out' = <<>>
             /\ fields' = fields]_vars
    /\ [][(last' # last /\ last'.ev = "GetInfo" /\ last'.bus = "Ctl")
          => /\ Len(out') = 1
             /\ out'[1].bus = "Ctl"
             /\ out'[1].to = last'.input.source
             /\ out'[1].type = "ChannelInfo"
             /\ out'[1].body.state = state
             /\ out'[1].body.commitment_updates = commitment_number
             /\ out'[1].body.total_payments = total_payments
             /\ out'[1].body.pending_payments = pending_payments
             /\ out'[1].body.temporary_channel_id = temporary_channel_id
             /\ out'[1].body.channel_id =
                    (IF channel_id = ZeroId THEN None
                     ELSE <<"Some", channel_id>>)
             /\ last'.result \in {"Ok", "Esb"}
             /\ fields' = fields]_vars
    /\ []((last.ev = "GetInfo" /\ last.bus = "Msg")
          => ENABLED <<GetInfo(Client, "sent")>>_vars)

\* C23: GetInfo has been served on Ctl for a funded channel that has
\* issued payments
C23_Witness ==
    /\ last.ev = "GetInfo" /\ last.bus = "Ctl" /\ last.result = "Ok"
    /\ channel_id # ZeroId
    /\ total_payments > 0
    /\ Len(out) = 1
    /\ out[1].body.channel_id = <<"Some", channel_id>>
    /\ out[1].body.total_payments = total_payments

\* C25: handle_err returns Ok for a transport error, makes no send_to call
\* and changes no field; the event loop then takes the next frame from the
\* same state.
C25_TransportErrorsSwallowed ==
    /\ [][(last' # last /\ last'.ev = "handle_err")
          => /\ last'.result = "Ok"
             /\ last'.err = <<>>
             /\ out' = <<>>
             /\ fields' = fields]_vars
    /\ [](last.ev = "handle_err"
          => ENABLED <<GetInfo(Client, "sent")>>_vars)

\* C25: a transport error has been met by a funded channel that has issued
\* payments
C25_Witness ==
    /\ last.ev = "handle_err"
    /\ last.result = "Ok"
    /\ channel_id # ZeroId
    /\ state = "Accepted"
    /\ total_payments > 0

\* the order of the channel states on the opening path
StateOrder == <<"Proposed", "Accepted", "FundingCreated", "Funded",
                "Locked", "Operational">>
\* the place of a state in that order
StateRank(s) == CHOOSE i \in 1..Len(StateOrder) : StateOrder[i] = s

\* C28: no handled event moves the channel state to an earlier state of
\* the order Proposed, Accepted, FundingCreated, Funded, Locked,
\* Operational.
C28_StateNeverMovesBack ==
    [][StateRank(state') >= StateRank(state)]_vars

\* C29: the bus identity and the channel id agree in every reachable
\* state: identity is Channel(channel_id) when channel_id is not zero and
\* Channel(temporary_channel_id) when it is zero.
C29_IdentityFollowsChannelId ==
    /\ channel_id # ZeroId => identity = Channel(channel_id)
    /\ channel_id = ZeroId => identity = Channel(temporary_channel_id)

(***************************************************************************)
(* The supervisor (lnpd): the Runtime object of src/lnpd/runtime.rs, one   *)
(* action per match arm of its handle_rpc_msg / handle_rpc_ctl.            *)
(***************************************************************************)
\* the temporary channel ids of the requests lnpd receives
TempIds == {<<17, 4368 + n>> : n \in 1..MaxTempIds}
\* message::OpenChannel as lnpd receives it (lnpd does not validate it)
LnpdOpenChannelReqs ==
    [temporary_channel_id : TempIds, funding_satoshis : {1000000, 2000000},
     dust_limit_satoshis : {354}, to_self_delay : {144},
     keys : {KeySet(1)}]
\* a channel address no request was received for
StrangerId == <<57005, 57005>>
\* the sources a Connect may come from
ConnectSources == {Channel(t) : t \in TempIds \cup {StrangerId}} \cup {Peerd}
\* request types the Ctl interface of lnpd has no arm for
LnpdUnknownCtlRequests == {"Hello", "UpdateChannelId"}
\* peer messages other than OpenChannel
LnpdOtherPeerMessages == {"AcceptChannel"}

\* four hexadecimal digits of a 16-bit number, most significant first
HexDigits(n) == <<n \div 4096, (n \div 256) % 16, (n \div 16) % 16, n % 16>>
\* the number four hexadecimal digits stand for
HexValue(d) == 4096 * d[1] + 256 * d[2] + 16 * d[3] + d[4]
\* TempChannelId::to_hex: the bytes of the id in order, two digits each
ToHex(id) == HexDigits(id[1]) \o HexDigits(id[2])
\* the ChannelId channeld parses from its argument
FromHex(digits) == <<HexValue(SubSeq(digits, 1, 4)),
                     HexValue(SubSeq(digits, 5, 8))>>

\* the key open_channel inserts at, were it the all-zero channel id
OpeningKeyZero(open_channel) == Channel(ZeroId)

\* the key open_channel inserts at:
\* DaemonId::Channel(ChannelId::from_inner(temporary_channel_id.into_inner()))
OpeningKey(open_channel) == Channel(open_channel.temporary_channel_id)

\* HashMap::insert: the entry at `key` is added or replaced
Insert(map, key, value) ==
    [k \in DOMAIN map \cup {key} |-> IF k = key THEN value ELSE map[k]]
\* HashMap::remove
Remove(map, key) == [k \in DOMAIN map \ {key} |-> map[k]]

\* lnpd's event loop takes the next frame
LnpdFrame(ev, bus, source, result, err, input, sends, launches) ==
    /\ lnpd_last' = [ev |-> ev, bus |-> bus, source |-> source,
                     result |-> result, err |-> err, input |-> input]
    /\ lnpd_out' = sends
    /\ launched' = launches
    /\ UNCHANGED <<channeld_vars, pair_vars, codec>>

\* open_channel and launch: `launch_ok` says whether the child process
\* was spawned
Lnpd_open_channel(ev, bus, source, open_channel, input, launch_ok) ==
    LET launch == [name |-> "channeld",
                   args |-> <<ToHex(open_channel.temporary_channel_id)>>]
    IN
    IF ~launch_ok
    THEN /\ UNCHANGED <<opening_channels, spawned, requested_on>>
         /\ LnpdFrame(ev, bus, source, "Io", <<>>, input, <<>>, <<launch>>)
    ELSE /\ opening_channels' =
                Insert(opening_channels, OpeningKey(open_channel),
                       open_channel)
         /\ spawned' = spawned \cup {RunIdentity(FromHex(launch.args[1]))}
         /\ requested_on' =
                Insert(requested_on, OpeningKey(open_channel), bus)
         /\ LnpdFrame(ev, bus, source, "Ok", <<>>, input, <<>>, <<launch>>)

\* handle_rpc_msg, LnpwpMessage(OpenChannel) arm
Lnpd_OpenChannel(source, open_channel, launch_ok) ==
    Lnpd_open_channel("OpenChannel", "Msg", source, open_channel,
                      [channel_req |-> open_channel], launch_ok)

\* handle_rpc_msg, LnpwpMessage(_) arm: the other peer messages are ignored
Lnpd_OtherPeerMessage(source, type) ==
    /\ UNCHANGED <<opening_channels, spawned, requested_on>>
    /\ LnpdFrame(type, "Msg", source, "Ok", <<>>, 0, <<>>, <<>>)

\* fallback arm of handle_rpc_msg
Lnpd_MsgNotSupported(source, type) ==
    /\ UNCHANGED <<opening_channels, spawned, requested_on>>
    /\ LnpdFrame(type, "Msg", source, "NotSupported", <<"Msg", type>>, 0,
                 <<>>, <<>>)

\* handle_rpc_ctl, CreateChannel arm
Lnpd_CreateChannel(source, channel_req, connectiond, launch_ok) ==
    Lnpd_open_channel("CreateChannel", "Ctl", source, channel_req,
                      [channel_req |-> channel_req,
                       connectiond |-> connectiond], launch_ok)

\* the Connect arm as it would be were an unknown source let through
Lnpd_ConnectLenient(source, outcome) ==
    IF source \notin DOMAIN opening_channels
    THEN /\ UNCHANGED <<opening_channels, spawned, requested_on>>
         /\ LnpdFrame("Connect", "Ctl", source, "Ok", <<>>, 0, <<>>, <<>>)
    ELSE /\ UNCHANGED <<opening_channels, spawned, requested_on>>
         /\ LnpdFrame("Connect", "Ctl", source, SendResult(outcome), <<>>,
                      0,
                      <<Send("Ctl", Lnpd, source, "CreateChannel",
                             [channel_req |-> opening_channels[source],
                              connectiond |-> source])>>,
                      <<>>)

\* the Connect arm as it would be were the request taken out of the map
Lnpd_ConnectTaking(source, outcome) ==
    IF source \notin DOMAIN opening_channels
    THEN /\ UNCHANGED <<opening_channels, spawned, requested_on>>
         /\ LnpdFrame("Connect", "Ctl", source, "Other", <<"Unknown channel">>,
                      0, <<>>, <<>>)
    ELSE /\ opening_channels' = Remove(opening_channels, source)
         /\ UNCHANGED <<spawned, requested_on>>
         /\ LnpdFrame("Connect", "Ctl", source, SendResult(outcome), <<>>,
                      0,
                      <<Send("Ctl", Lnpd, source, "CreateChannel",
                             [channel_req |-> opening_channels[source],
                              connectiond |-> source])>>,
                      <<>>)

\* handle_rpc_ctl, Connect arm
Lnpd_Connect(source, outcome) ==
    IF source \notin DOMAIN opening_channels
    THEN /\ UNCHANGED <<opening_channels, spawned, requested_on>>
         /\ LnpdFrame("Connect", "Ctl", source, "Other", <<"Unknown channel">>,
                      0, <<>>, <<>>)
    ELSE /\ UNCHANGED <<opening_channels, spawned, requested_on>>
         /\ LnpdFrame("Connect", "Ctl", source, SendResult(outcome), <<>>,
                      0,
                      <<Send("Ctl", Lnpd, source, "CreateChannel",
                             [channel_req |-> opening_channels[source],
                              connectiond |-> source])>>,
                      <<>>)

\* fallback arm of handle_rpc_ctl
Lnpd_CtlNotSupported(source, type) ==
    /\ UNCHANGED <<opening_channels, spawned, requested_on>>
    /\ LnpdFrame(type, "Ctl", source, "NotSupported", <<"Ctl", type>>, 0,
                 <<>>, <<>>)

\* handle as it would be were another bus dispatched like Ctl
Lnpd_BridgeAsCtl(source, type) ==
    /\ UNCHANGED <<opening_channels, spawned, requested_on>>
    /\ LnpdFrame(type, "Bridge", source, "NotSupported", <<"Ctl", type>>, 0,
                 <<>>, <<>>)

\* handle on any bus other than Msg and Ctl
Lnpd_BridgeNotSupported(source, type) ==
    /\ UNCHANGED <<opening_channels, spawned, requested_on>>
    /\ LnpdFrame(type, "Bridge", source, "NotSupported",
                 <<"Bridge", type>>, 0, <<>>, <<>>)

\* the supervisor alone: the channeld of this model handles no request
LnpdNext ==
    \/ \E r \in LnpdOpenChannelReqs, ok \in BOOLEAN :
          Lnpd_OpenChannel(Peerd, r, ok)
    \/ \E t \in LnpdOtherPeerMessages : Lnpd_OtherPeerMessage(Peerd, t)
    \/ \E t \in NonPeerRequests : Lnpd_MsgNotSupported(Peerd, t)
    \/ \E r \in LnpdOpenChannelReqs, ok \in BOOLEAN :
          Lnpd_CreateChannel(Client, r, Peerd, ok)
    \/ \E src \in ConnectSources, o \in {"sent", "ctl_fails"} :
          Lnpd_Connect(src, o)
    \/ \E t \in LnpdUnknownCtlRequests : Lnpd_CtlNotSupported(Client, t)
    \/ \E t \in LnpdUnknownCtlRequests : Lnpd_BridgeNotSupported(Client, t)

SpecLnpd == Init /\ [][LnpdNext]_vars

(***************************************************************************)
(* Properties of lnpd.                                                     *)
(***************************************************************************)
\* C19: a CreateChannel on Ctl or a peer OpenChannel on Msg with temporary
\* channel id T launches channeld once, with T in hexadecimal as its
\* argument; when open_channel returns Ok the map holds at Channel(T)
\* exactly the request received and is otherwise as it was, and Channel(T)
\* is the identity the channeld started with that argument takes; so every
\* started channeld has an entry and its Connect is never unknown.
C19_OpeningChannelRecorded ==
    /\ [][(lnpd_last' # lnpd_last
           /\ lnpd_last'.ev \in {"CreateChannel", "OpenChannel"})
          => LET req == lnpd_last'.input.channel_req
                 key == Channel(req.temporary_channel_id)
             IN /\ Len(launched') = 1
                /\ launched'[1].name = "channeld"
                /\ launched'[1].args = <<ToHex(req.temporary_channel_id)>>
                /\ lnpd_last'.bus =
                       (IF lnpd_last'.ev = "CreateChannel" THEN "Ctl"
                        ELSE "Msg")
                /\ lnpd_last'.result = "Ok" =>
                       /\ DOMAIN opening_channels' =
                              DOMAIN opening_channels \cup {key}
                       /\ opening_channels'[key] = req
                       /\ \A k \in DOMAIN opening_channels \ {key} :
                              opening_channels'[k] = opening_channels[k]
                       /\ RunIdentity(FromHex(launched'[1].args[1])) = key
                       /\ key \in spawned'
                /\ lnpd_last'.result # "Ok" =>
                       opening_channels' = opening_channels]_vars
    /\ [](spawned \subseteq DOMAIN opening_channels)
    /\ [][(lnpd_last' # lnpd_last /\ lnpd_last'.ev = "Connect"
           /\ lnpd_last'.source \in spawned)
          => lnpd_last'.result # "Other"]_vars

\* C19: a second request has been recorded next to an earlier one, and its
\* channeld was launched
C19_Witness ==
    /\ lnpd_last.ev \in {"CreateChannel", "OpenChannel"}
    /\ lnpd_last.result = "Ok"
    /\ Len(launched) = 1
    /\ Cardinality(DOMAIN opening_channels) >= 2
    /\ opening_channels[Channel(lnpd_last.input.channel_req
                                     .temporary_channel_id)]
           = lnpd_last.input.channel_req

\* C20: a Connect on Ctl from a source that has an entry in
\* opening_channels makes exactly one send_to call, a CreateChannel on Ctl
\* to that source carrying the request recorded for the source and the
\* source as connectiond, and leaves opening_channels as it was.
C20_ConnectForwardsRequest ==
    [][(lnpd_last' # lnpd_last /\ lnpd_last'.ev = "Connect"
        /\ lnpd_last'.source \in DOMAIN opening_channels)
       => /\ Len(lnpd_out') = 1
          /\ lnpd_out'[1] =
                 Send("Ctl", Lnpd, lnpd_last'.source, "CreateChannel",
                      [channel_req |-> opening_channels[lnpd_last'.source],
                       connectiond |-> lnpd_last'.source])
          /\ lnpd_last'.result \in {"Ok", "Esb"}
          /\ opening_channels' = opening_channels]_vars

\* C20: a Connect of a recorded channel has been answered while another
\* request was pending too
C20_Witness ==
    /\ lnpd_last.ev = "Connect"
    /\ lnpd_last.result = "Ok"
    /\ lnpd_last.source \in DOMAIN opening_channels
    /\ Cardinality(DOMAIN opening_channels) >= 2
    /\ Len(lnpd_out) = 1
    /\ lnpd_out[1].body.channel_req = opening_channels[lnpd_last.source]
    /\ lnpd_out[1].to = lnpd_last.source

\* C21: a Connect on Ctl from a source without an entry in
\* opening_channels returns Error::Other("Unknown channel"), makes no
\* send_to call and no launch, and leaves opening_channels as it was; the
\* event loop then still takes the next request.
C21_UnknownConnectRejected ==
    /\ [][(lnpd_last' # lnpd_last /\ lnpd_last'.ev = "Connect"
           /\ lnpd_last'.source \notin DOMAIN opening_channels)
          => /\ lnpd_last'.result = "Other"
             /\ lnpd_last'.err = <<"Unknown channel">>
             /\ lnpd_last'.bus = "Ctl"
             /\ lnpd_out' = <<>>
             /\ launched' = <<>>
             /\ opening_channels' = opening_channels
             /\ spawned' = spawned]_vars
    /\ []((lnpd_last.ev = "Connect" /\ lnpd_last.result = "Other")
          => ENABLED <<LnpdNext>>_vars)

\* C21: a Connect from an address no request was recorded for has been
\* refused while another request was pending
C21_Witness ==
    /\ lnpd_last.ev = "Connect"
    /\ lnpd_last.source = Channel(StrangerId)
    /\ lnpd_last.result = "Other"
    /\ lnpd_out = <<>>
    /\ DOMAIN opening_channels # {}

\* C22: the reply to the Connect of a channeld tells a channel requested by
\* a peer's OpenChannel on Msg (to be accepted, as responder) from one
\* requested by CreateChannel on Ctl (to be opened, as originator): it is a
\* CreateChannel exactly for the latter.
C22_ReplyTellsResponderFromOriginator ==
    [][(lnpd_last' # lnpd_last /\ lnpd_last'.ev = "Connect"
        /\ lnpd_last'.source \in DOMAIN opening_channels)
       => \A i \in 1..Len(lnpd_out') :
             (lnpd_out'[i].type = "CreateChannel")
             <=> (requested_on[lnpd_last'.source] = "Ctl")]_vars

(***************************************************************************)
(* The daemons of one node. channeld and lnpd are separate processes, each *)
(* with its own Runtime and its own event loop, and share no state: a      *)
(* behaviour follows the requests of one of them.                          *)
(***************************************************************************)
\* the event loop of channeld, lnpd having handled no request
ChanneldAlone == lnpd_last.ev = "start" /\ Next
\* the event loop of lnpd, channeld having handled no request
LnpdAlone == last.ev = "start" /\ LnpdNext

DaemonsNext == ChanneldAlone \/ LnpdAlone

SpecDaemons == Init /\ [][DaemonsNext]_vars

\* C24: in channeld and in lnpd, a request on a bus other than Msg and Ctl
\* fails with NotSupported naming the Bridge bus and the request type; a
\* request that is no peer message on Msg, and a request the Ctl interface
\* has no arm for, fail with NotSupported naming that bus and the request
\* type; none of them makes a send_to call or changes the daemon's state.
C24_NotSupportedChangesNothing ==
    /\ [][(last' # last
           /\ \/ last'.bus = "Bridge"
              \/ last'.bus = "Msg" /\ last'.ev \in NonPeerRequests
              \/ last'.bus = "Ctl" /\ last'.ev \in UnknownCtlRequests)
          => /\ last'.result = "NotSupported"
             /\ last'.err = <<last'.bus, last'.ev>>
             /\ out' = <<>>
             /\ fields' = fields]_vars
    /\ [][(lnpd_last' # lnpd_last
           /\ \/ lnpd_last'.bus = "Bridge"
              \/ lnpd_last'.bus = "Msg" /\ lnpd_last'.ev \in NonPeerRequests
              \/ lnpd_last'.bus = "Ctl"
                 /\ lnpd_last'.ev \in LnpdUnknownCtlRequests)
          => /\ lnpd_last'.result = "NotSupported"
             /\ lnpd_last'.err = <<lnpd_last'.bus, lnpd_last'.ev>>
             /\ lnpd_out' = <<>>
             /\ launched' = <<>>
             /\ opening_channels' = opening_channels]_vars
    /\ [][(last'.result = "NotSupported" /\ last' # last)
          => fields' = fields /\ out' = <<>>]_vars
    /\ [][(lnpd_last'.result = "NotSupported" /\ lnpd_last' # lnpd_last)
          => opening_channels' = opening_channels]_vars

\* C24: a funded channeld that has issued payments has refused a request
\* on the Bridge bus
C24_Witness ==
    /\ last.bus = "Bridge"
    /\ last.result = "NotSupported"
    /\ last.err = <<"Bridge", last.ev>>
    /\ channel_id # ZeroId
    /\ total_payments > 0

(***************************************************************************)
(* Two channeld of one channel: the originator is asked once to open the   *)
(* channel, the responder is the channeld of the remote node; each handler *)
(* is the one of src/channeld/runtime.rs, applied to the Runtime of its    *)
(* side, and the peer messages one side sends are those the other handles. *)
(***************************************************************************)
\* the OpenChannel requests the operator may make
PairOpenChannelReqs ==
    [temporary_channel_id : {TempId}, funding_satoshis : {1000000},
     dust_limit_satoshis : {354}, to_self_delay : {144},
     keys : {KeySet(k) : k \in 1..MaxPeerKeys}, valid : BOOLEAN]
\* the funding outpoints the operator may name: output indexes below and
\* above 2^8 and 2^16
PairOutPoints ==
    {[txid |-> <<1, 43690>>, vout |-> 7],
     [txid |-> <<1, 43690>>, vout |-> 0],
     [txid |-> <<2, 255>>, vout |-> 65535],
     [txid |-> <<2, 4660>>, vout |-> 65794]}

\* a peer message in flight
PeerMessage(type, body) == [type |-> type, body |-> body]
\* send_peer: the message reaches the wire when the send succeeds and
\* peer_service is the connection daemon of the peer
SentToPeer(r, sent, type, body) ==
    IF sent /\ r.peer_service = Peerd THEN {PeerMessage(type, body)} ELSE {}

\* funding_update as it would be were the channel id left as it is
FundingUpdatedKeepingId(r) ==
    [r EXCEPT !.obscuring_factor =
                  ObscuringFactor(r.is_originator, r.local_keys,
                                  r.remote_keys),
              !.commitment_number = 0,
              !.funded = IF r.agreed THEN "agreed" ELSE "early"]

\* funding_update on the Runtime r, whose funding_outpoint is already set
FundingUpdated(r) ==
    [r EXCEPT !.obscuring_factor =
                  ObscuringFactor(r.is_originator, r.local_keys,
                                  r.remote_keys),
              !.commitment_number = 0,
              !.channel_id = ChannelIdWith(r.funding_outpoint),
              !.funded = IF r.agreed THEN "agreed" ELSE "early"]

\* the originator handles OpenChannelWith (once)
PairOpenChannelWith(channel_req, outcome) ==
    /\ ~originator.opened
    /\ originator' =
          [originator EXCEPT
              !.opened = TRUE,
              !.peer_service = Peerd,
              !.is_originator = TRUE,
              !.params = IF channel_req.valid THEN ParamsWith(channel_req)
                         ELSE @,
              !.local_keys = IF channel_req.valid THEN channel_req.keys
                             ELSE @,
              !.state = IF channel_req.valid
                        THEN OpenChannelWithState(outcome, @) ELSE @]
    /\ wire' = wire \cup
                (IF channel_req.valid
                 THEN SentToPeer(originator', outcome = "sent",
                                 "OpenChannel", channel_req)
                 ELSE {})
    /\ UNCHANGED <<responder, channeld_vars, lnpd_vars, codec>>

\* the responder handles AcceptChannelFrom for an OpenChannel of the wire
PairAcceptChannelFrom(m, accepted, outcome) ==
    LET channel_req == m.body
        accept_channel == AcceptChannelWith(channel_req, responder.node_id)
        stored == channel_req.valid /\ accepted
    IN
    /\ m \in wire /\ m.type = "OpenChannel"
    /\ responder' =
          [responder EXCEPT
              !.peer_service = Peerd,
              !.is_originator = FALSE,
              !.params = IF ~channel_req.valid THEN @
                         ELSE IF ~accepted THEN ParamsWith(channel_req)
                         ELSE ParamsUpdated(ParamsWith(channel_req),
                                            accept_channel),
              !.remote_keys = IF channel_req.valid THEN channel_req.keys
                              ELSE @,
              !.local_keys = IF stored THEN accept_channel.keys ELSE @,
              !.state = IF stored /\ outcome = "sent" THEN "Accepted"
                        ELSE "Proposed",
              !.agreed = stored]
    /\ wire' = (wire \ {m}) \cup
                (IF stored
                 THEN SentToPeer(responder', outcome = "sent",
                                 "AcceptChannel", accept_channel)
                 ELSE {})
    /\ UNCHANGED <<originator, channeld_vars, lnpd_vars, codec>>

\* the originator handles the AcceptChannel of the wire; `valid` says
\* whether ChannelParams::updated accepts it
PairAcceptChannel(m, valid) ==
    LET accept_channel ==
            [temporary_channel_id |-> m.body.temporary_channel_id,
             dust_limit_satoshis |-> m.body.dust_limit_satoshis,
             to_self_delay |-> m.body.to_self_delay,
             minimum_depth |-> m.body.minimum_depth,
             keys |-> m.body.keys, valid |-> valid]
    IN
    /\ m \in wire /\ m.type = "AcceptChannel"
    /\ originator' =
          [originator EXCEPT
              !.state = AcceptChannelState(@),
              !.remote_keys = ChannelAcceptedKeys(@, accept_channel),
              !.params = IF valid THEN ParamsUpdated(@, accept_channel)
                         ELSE @,
              !.agreed = valid]
    /\ wire' = wire \ {m}
    /\ UNCHANGED <<responder, channeld_vars, lnpd_vars, codec>>

\* the originator handles FundChannel
PairFundChannel(outpoint, outcome) ==
    /\ originator' =
          FundingUpdated([originator EXCEPT !.funding_outpoint = outpoint])
    /\ wire' = wire \cup
                SentToPeer(originator, outcome = "sent", "FundingCreated",
                           LocalFundingCreated(
                               originator.temporary_channel_id, outpoint))
    /\ UNCHANGED <<responder, channeld_vars, lnpd_vars, codec>>

\* the responder handles the FundingCreated of the wire
PairFundingCreated(m, outcome) ==
    /\ m \in wire /\ m.type = "FundingCreated"
    /\ responder' =
          FundingUpdated(
              [responder EXCEPT
                  !.funding_outpoint =
                      [txid |-> m.body.funding_txid,
                       vout |-> m.body.funding_output_index]])
    /\ wire' = (wire \ {m}) \cup
                SentToPeer(responder, outcome = "sent", "FundingSigned",
                           [channel_id |-> responder'.channel_id])
    /\ UNCHANGED <<originator, channeld_vars, lnpd_vars, codec>>

\* the originator handles the FundingSigned of the wire: nothing is done
PairFundingSigned(m) ==
    /\ m \in wire /\ m.type = "FundingSigned"
    /\ wire' = wire \ {m}
    /\ UNCHANGED <<originator, responder, channeld_vars, lnpd_vars, codec>>

\* the two event loops and the wire between them
PairNext ==
    \/ \E r \in PairOpenChannelReqs, o \in {"sent", "msg_fails"} :
          PairOpenChannelWith(r, o)
    \/ \E m \in wire, a \in BOOLEAN, o \in {"sent", "msg_fails"} :
          PairAcceptChannelFrom(m, a, o)
    \/ \E m \in wire, v \in BOOLEAN : PairAcceptChannel(m, v)
    \/ \E op \in PairOutPoints, o \in SendOutcomes : PairFundChannel(op, o)
    \/ \E m \in wire, o \in SendOutcomes : PairFundingCreated(m, o)
    \/ \E m \in wire : PairFundingSigned(m)

\* the pair alone: the single channeld and the supervisor of this model
\* handle no request
InitPair ==
    /\ ChanneldInit
    /\ LnpdInit
    /\ originator = PairRuntime(NodeKey)
    /\ responder \in {PairRuntime(k) : k \in PairNodeKeys}
    /\ wire = {}
    /\ codec = CodecIdle

SpecPair == InitPair /\ [][PairNext]_vars

(***************************************************************************)
(* Properties of the pair.                                                 *)
(***************************************************************************)
\* C16: once both sides have run funding_update with the keys of the
\* negotiation stored (the originator after OpenChannelWith and the peer's
\* AcceptChannel, the responder after AcceptChannelFrom), both hold the
\* same obscuring_factor: the hash tail of the opener's payment basepoint
\* followed by the responder's.
C16_ObscuringFactorAgrees ==
    (originator.funded = "agreed" /\ responder.funded = "agreed")
    => /\ originator.obscuring_factor = responder.obscuring_factor
       /\ originator.obscuring_factor =
              Sha256Tail(originator.local_keys.payment_basepoint,
                         responder.node_id)
       /\ responder.remote_keys.payment_basepoint =
              originator.local_keys.payment_basepoint
       /\ originator.remote_keys.payment_basepoint = responder.node_id

\* C16: both sides have funded the negotiated channel, the opener's
\* payment basepoint being the larger of the two
C16_Witness ==
    /\ originator.funded = "agreed"
    /\ responder.funded = "agreed"
    /\ originator.is_originator /\ ~responder.is_originator
    /\ originator.local_keys.payment_basepoint > responder.node_id
    /\ originator.obscuring_factor # 0

\* txid with its last two bytes XORed, byte by byte, with bytes 2 and 3 of
\* the big-endian output index
TxidXorVout(txid, vout) ==
    <<txid[1],
      256 * Xor((txid[2] \div 256) % 256, (vout \div 256) % 256)
      + Xor(txid[2] % 256, vout % 256)>>

\* C17: the channel_id funding_update stores is the txid of the funding
\* outpoint with its last two bytes XORed with the low 16 bits of the
\* output index, big-endian, the other bytes unchanged.
C17_ChannelIdDerivation ==
    /\ originator.funded # "no" =>
           originator.channel_id =
               TxidXorVout(originator.funding_outpoint.txid,
                           originator.funding_outpoint.vout)
    /\ responder.funded # "no" =>
           responder.channel_id =
               TxidXorVout(responder.funding_outpoint.txid,
                           responder.funding_outpoint.vout)

\* C17: an output index above 2^16 with both low bytes set has been funded
\* and the responder has derived the id from the 16-bit index it was sent
C17_Witness ==
    /\ originator.funded # "no"
    /\ originator.funding_outpoint.vout = 65794
    /\ originator.channel_id = <<2, 4918>>
    /\ responder.funded # "no"
    /\ responder.funding_outpoint.vout = 258
    /\ responder.channel_id = originator.channel_id

\* the outpoint funding_created rebuilds from a FundingCreated message
OutPointOf(funding_created) ==
    [txid |-> funding_created.funding_txid,
     vout |-> funding_created.funding_output_index]

\* C30: the channel id the originator derives from the outpoint of
\* FundChannel is the one the responder derives from the FundingCreated
\* sent for it, whose output index is cut to 16 bits, and the
\* FundingSigned the responder answers with carries that id; so the two
\* sides hold the same channel_id once the responder has handled the
\* FundingCreated of the originator's funding.
C30_SameChannelIdBothSides ==
    /\ [][\A m \in wire' \ wire :
             m.type = "FundingCreated"
             => /\ m.body.funding_txid = originator'.funding_outpoint.txid
                /\ m.body.funding_output_index < 65536
                /\ ChannelIdWith(OutPointOf(m.body)) = originator'.channel_id
         ]_vars
    /\ [][\A m \in wire \ wire' :
             m.type = "FundingCreated"
             => /\ responder'.funding_outpoint = OutPointOf(m.body)
                /\ responder'.channel_id = ChannelIdWith(OutPointOf(m.body))
                /\ \A s \in wire' \ wire :
                      s.type = "FundingSigned"
                      /\ s.body.channel_id = responder'.channel_id]_vars
    /\ []((/\ originator.funded # "no"
           /\ responder.funded # "no"
           /\ responder.funding_outpoint =
                 [txid |-> originator.funding_outpoint.txid,
                  vout |-> originator.funding_outpoint.vout % 65536])
          => responder.channel_id = originator.channel_id)

\* C30: the originator has funded an output index above 2^16, the responder
\* has handled its FundingCreated and the FundingSigned in flight carries
\* the originator's channel id
C30_Witness ==
    /\ originator.funded # "no"
    /\ originator.funding_outpoint.vout >= 65536
    /\ responder.funded # "no"
    /\ responder.funding_outpoint.txid = originator.funding_outpoint.txid
    /\ responder.funding_outpoint.vout =
          originator.funding_outpoint.vout % 65536
    /\ PeerMessage("FundingSigned", [channel_id |-> originator.channel_id])
          \in wire

(***************************************************************************)
(* The address codec of src/daemon_id.rs: the strict encoding of a         *)
(* DaemonId and its flat projection to the routing key of the bus, applied *)
(* to addresses and byte strings drawn from the sets below. A string is    *)
(* the sequence of its bytes.                                              *)
(***************************************************************************)
\* a DaemonId: its variant and the payload of the variant, a string or the
\* 32 bytes of a channel id, empty for the variants that carry none
Address(tag, payload) == <<tag, payload>>
\* the variants that carry no payload
UnitVariants == {"Loopback", "Lnpd", "Gossip", "Routing"}

\* "loopback", "lnpd", "gossipd", "routed"
LoopbackName == <<108, 111, 111, 112, 98, 97, 99, 107>>
LnpdName == <<108, 110, 112, 100>>
GossipName == <<103, 111, 115, 115, 105, 112, 100>>
RoutingName == <<114, 111, 117, 116, 101, 100>>

\* n bytes b
Fill(n, b) == [i \in 1..n |-> b]
\* channel ids, 32 bytes each
CodecChannelIds ==
    {Fill(30, y) \o <<x, z>> : y \in {0, 97, 255}, x \in {0, 170},
                               z \in {0, 7, 173}}
\* the hexadecimal form of a compressed public key: "02" and 64 digits
NodeKeyHex(digit) == <<48, 50>> \o Fill(64, digit)
\* strings of the form <node key>@<address>
EndpointStrings ==
    {NodeKeyHex(d) \o <<64>> \o h :
        d \in {49, 97},
        h \in {<<104, 111, 115, 116>>, <<49, 46, 50, 46, 51, 46, 52>>}}
\* other strings: "", "abc", "x@y", the four fixed names, "gossip", strings
\* of 31 and of 32 letters, a node key with no address
OtherStrings ==
    {<<>>, <<97, 98, 99>>, <<120, 64, 121>>, LoopbackName, LnpdName,
     GossipName, RoutingName, <<103, 111, 115, 115, 105, 112>>,
     Fill(31, 97), Fill(32, 97), NodeKeyHex(97)}
\* the addresses converted
CodecAddresses ==
    {Address(t, <<>>) : t \in UnitVariants}
    \cup {Address("Connection", s) : s \in EndpointStrings \cup OtherStrings}
    \cup {Address("Channel", id) : id \in CodecChannelIds}
    \cup {Address("Foreign", s) : s \in EndpointStrings \cup OtherStrings}

\* a length as strict encoding writes it: 16 bits, little-endian
U16LE(n) == <<n % 256, n \div 256>>
\* the byte strings handed to strict_decode: every first byte 0..8 before
\* nothing, a string, a string cut short, a channel id, a byte that is no
\* UTF-8
CodecEncodings ==
    {<<ty>> \o rest :
        ty \in 0..8,
        rest \in {<<>>, U16LE(3) \o <<97, 98, 99>>, U16LE(3) \o <<97>>,
                  U16LE(32) \o Fill(32, 7), U16LE(1) \o <<255>>}}
\* the byte strings handed to From<Vec<u8>>
FlatInputs ==
    OtherStrings \cup EndpointStrings \cup CodecChannelIds
    \cup {<<255>>, <<97, 255>>}

\* the discriminant strict_encode writes for a variant
Discriminant(tag) ==
    CASE tag = "Loopback" -> 0
      [] tag = "Lnpd" -> 1
      [] tag = "Gossip" -> 2
      [] tag = "Routing" -> 3
      [] tag = "Connection" -> 4
      [] tag = "Channel" -> 5
      [] tag = "Foreign" -> 6

\* strict_encode as it would be were the discriminants counted from one
strict_encodeFromOne(a) ==
    IF a[1] \in UnitVariants THEN <<Discriminant(a[1]) + 1>>
    ELSE <<Discriminant(a[1]) + 1>> \o U16LE(Len(a[2])) \o a[2]

\* StrictEncode for DaemonId: the discriminant, then the payload with its
\* length before it
strict_encode(a) ==
    IF a[1] \in UnitVariants THEN <<Discriminant(a[1])>>
    ELSE <<Discriminant(a[1])>> \o U16LE(Len(a[2])) \o a[2]

\* results of strict_decode
Decoded(a) == [ok |-> TRUE, value |-> a, err |-> <<"none", 0>>]
DecodeError(kind, n) ==
    [ok |-> FALSE, value |-> <<"None", <<>>>>, err |-> <<kind, n>>]

\* the payload strict_decode reads after the discriminant of a variant that
\* carries one: a string must be UTF-8, a channel id 32 bytes
DecodePayload(tag, d) ==
    IF Len(d) < 3 THEN DecodeError("Io", 0)
    ELSE LET n == d[2] + 256 * d[3]
         IN IF Len(d) < 3 + n THEN DecodeError("Io", 0)
            ELSE LET payload == SubSeq(d, 4, 3 + n)
                 IN IF tag = "Channel"
                    THEN IF n = 32 THEN Decoded(Address(tag, payload))
                         ELSE DecodeError("DataIntegrityError", n)
                    ELSE IF \E i \in 1..n : payload[i] > 127
                    THEN DecodeError("Utf8", 0)
                    ELSE Decoded(Address(tag, payload))

\* StrictDecode for DaemonId
strict_decode(d) ==
    IF Len(d) = 0 THEN DecodeError("Io", 0)
    ELSE LET ty == d[1]
         IN CASE ty = 0 -> Decoded(Address("Loopback", <<>>))
              [] ty = 1 -> Decoded(Address("Lnpd", <<>>))
              [] ty = 2 -> Decoded(Address("Gossip", <<>>))
              [] ty = 3 -> Decoded(Address("Routing", <<>>))
              [] ty = 4 -> DecodePayload("Connection", d)
              [] ty = 5 -> DecodePayload("Channel", d)
              [] ty = 6 -> DecodePayload("Foreign", d)
              [] OTHER -> DecodeError("EnumValueNotKnown", ty)

\* as_ref as it would be were the names those DaemonId is displayed with
as_refDisplayed(a) ==
    CASE a[1] = "Loopback" -> LoopbackName
      [] a[1] = "Lnpd" -> LnpdName
      [] a[1] = "Gossip" -> GossipName
      [] a[1] = "Routing" -> <<114, 111, 117, 116, 105, 110, 103>>
      [] OTHER -> a[2]

\* AsRef<[u8]> for DaemonId: the flat projection
as_ref(a) ==
    CASE a[1] = "Loopback" -> LoopbackName
      [] a[1] = "Lnpd" -> LnpdName
      [] a[1] = "Gossip" -> GossipName
      [] a[1] = "Routing" -> RoutingName
      [] OTHER -> a[2]

\* String::from_utf8_lossy: a byte that is no UTF-8 becomes U+FFFD (the
\* bytes above 127 of the inputs are 170, 173 and 255 standing alone)
Utf8Lossy(v) == [i \in 1..Len(v) |-> IF v[i] > 127 THEN 65533 ELSE v[i]]
\* a hexadecimal digit
IsHexDigit(c) == c \in (48..57) \cup (65..70) \cup (97..102)
\* NodeEndpoint::from_str(s).is_ok(): a node key, "@" and an address
ParsesAsNodeEndpoint(s) ==
    /\ Len(s) > 67
    /\ \A i \in 1..66 : IsHexDigit(s[i])
    /\ s[67] = 64

\* From<Vec<u8>> for DaemonId
from_vec(v) ==
    IF v = LoopbackName THEN Address("Loopback", <<>>)
    ELSE IF v = LnpdName THEN Address("Lnpd", <<>>)
    ELSE IF v = GossipName THEN Address("Gossip", <<>>)
    ELSE IF v = RoutingName THEN Address("Routing", <<>>)
    ELSE LET s == Utf8Lossy(v)
         IN IF ParsesAsNodeEndpoint(s) THEN Address("Connection", s)
            ELSE IF Len(v) = 32 THEN Address("Channel", v)
            ELSE Address("Foreign", s)

\* an address is strict-encoded and the encoding decoded
StrictRoundTrip(a) ==
    /\ codec' = [op |-> "strict_round_trip", addr |-> a,
                 bytes |-> strict_encode(a),
                 result |-> strict_decode(strict_encode(a))]
    /\ UNCHANGED <<channeld_vars, lnpd_vars, pair_vars>>
\* a byte string is strict-decoded
StrictDecodeOf(d) ==
    /\ codec' = [op |-> "strict_decode", addr |-> <<"None", <<>>>>,
                 bytes |-> d, result |-> strict_decode(d)]
    /\ UNCHANGED <<channeld_vars, lnpd_vars, pair_vars>>
\* an address is projected to its routing key and the key parsed
FlatRoundTrip(a) ==
    /\ codec' = [op |-> "flat_round_trip", addr |-> a, bytes |-> as_ref(a),
                 result |-> Decoded(from_vec(as_ref(a)))]
    /\ UNCHANGED <<channeld_vars, lnpd_vars, pair_vars>>
\* a byte string is parsed as a routing key
FlatParse(v) ==
    /\ codec' = [op |-> "from_vec", addr |-> <<"None", <<>>>>, bytes |-> v,
                 result |-> Decoded(from_vec(v))]
    /\ UNCHANGED <<channeld_vars, lnpd_vars, pair_vars>>

CodecNext ==
    \/ \E a \in CodecAddresses : StrictRoundTrip(a)
    \/ \E d \in CodecEncodings : StrictDecodeOf(d)
    \/ \E a \in CodecAddresses : FlatRoundTrip(a)
    \/ \E v \in FlatInputs : FlatParse(v)

SpecCodec == Init /\ [][CodecNext]_vars

(***************************************************************************)
(* Properties of the address codec.                                        *)
(***************************************************************************)
\* C26: decoding the strict encoding of an address of any variant gives
\* the address back; the encoding starts with the discriminant of the
\* variant, 0 to 6 in the order Loopback, Lnpd, Gossip, Routing,
\* Connection, Channel, Foreign; decoding a first byte above 6 fails with
\* EnumValueNotKnown.
C26_StrictCodecRoundTrip ==
    /\ codec.op = "strict_round_trip"
       => /\ codec.result.ok
          /\ codec.result.value = codec.addr
          /\ \E i \in 1..7 :
                /\ <<"Loopback", "Lnpd", "Gossip", "Routing", "Connection",
                     "Channel", "Foreign">>[i] = codec.addr[1]
                /\ codec.bytes[1] = i - 1
    /\ (codec.op = "strict_decode" /\ codec.bytes[1] > 6)
       => /\ ~codec.result.ok
          /\ codec.result.err = <<"EnumValueNotKnown", codec.bytes[1]>>
    /\ (codec.op = "strict_decode" /\ codec.result.ok)
       => strict_encode(codec.result.value)
             = SubSeq(codec.bytes, 1, Len(strict_encode(codec.result.value)))

\* C26: a Channel address has gone through the strict codec
C26_Witness ==
    /\ codec.op = "strict_round_trip"
    /\ codec.addr[1] = "Channel"
    /\ codec.bytes[1] = 5
    /\ Len(codec.bytes) = 35
    /\ codec.result.value = codec.addr

====
